---- MODULE Spec2Model ----
(***************************************************************************)
(* Model of services/stock_analysis.py: StockAnalysisService.analyze_stock *)
(* and the steps it sequences (get_stock_data, calculate_indicators,       *)
(* _calculate_score, _get_recommendation).                                 *)
(*                                                                         *)
(* Numbers.  The code computes in float64 with pandas/numpy semantics.     *)
(* A value is modelled as a record [k, n, d]:                              *)
(*   k = "num"  the rational n/d (d > 0, reduced),                         *)
(*   k = "nan"  NaN / NaT (a missing value of a frame),                     *)
(*   k = "none" Python None,                                               *)
(*   k = "inf"  +infinity (n = 1) or -infinity (n = -1),                   *)
(*   k = "str"  a text cell of the upstream frame that is not a number     *)
(*              (or, in a date column, not a date),                        *)
(*   k = "date" a calendar date, day number n.                             *)
(* Every comparison with NaN is False, as in IEEE/numpy.  The arithmetic   *)
(* is exact, except that the rows of an exponential mean are rounded to a  *)
(* grid (see Grain); float64 rounding errors are not modelled otherwise.   *)
(***************************************************************************)
EXTENDS Integers, Sequences, FiniteSets, TLC

VARIABLES
    pc,        \* position inside analyze_stock / get_stock_data
    request,   \* the StockDataRequest
    calls,     \* upstream akshare calls issued so far, in order
    raw,       \* the frame the upstream call returned
    df,        \* stock_data: the price columns, one record per row
    ind,       \* stock_data: the indicator columns added by calculate_indicators
    score,     \* the local `score` of analyze_stock
    report,    \* the StockAnalysisResult returned
    error,     \* the exception that left analyze_stock, if any
    response   \* the JSONResponse the POST /analyze endpoint returned, if any

vars == <<pc, request, calls, raw, df, ind, score, report, error, response>>

----------------------------------------------------------------------------
(* Bounds of the model *)

MaxCodeLen == 2     \* longest stock_code drawn for a request
MaxRaw == 2         \* most rows an upstream frame holds
MaxDay == 2         \* dates are day numbers 1..MaxDay
MaxClose == 2       \* close prices are 1..MaxClose
MaxRecScore == 101  \* scores handed to the mapper alone run from -1 to MaxRecScore
MaxBars == 62       \* longest series handed to calculate_indicators directly
ScenarioBars == 300 \* rows of the rising series of the end-to-end scenario
MaxStep == 3        \* largest rise of the close from one bar to the next

----------------------------------------------------------------------------
(* Values *)

Num(i) == [k |-> "num", n |-> i, d |-> 1]
NaN == [k |-> "nan", n |-> 0, d |-> 1]
PosInf == [k |-> "inf", n |-> 1, d |-> 1]
NegInf == [k |-> "inf", n |-> -1, d |-> 1]
Str == [k |-> "str", n |-> 0, d |-> 1]
Day(i) == [k |-> "date", n |-> i, d |-> 1]
None == [k |-> "none", n |-> 0, d |-> 1]

Abs(i) == IF i < 0 THEN -i ELSE i
Min(a, b) == IF a < b THEN a ELSE b
Max(a, b) == IF a > b THEN a ELSE b
Sign(i) == IF i > 0 THEN 1 ELSE IF i < 0 THEN -1 ELSE 0

RECURSIVE GCD(_, _)
GCD(a, b) == IF b = 0 THEN a ELSE GCD(b, a % b)

\* the rational a/b, b # 0, in lowest terms with a positive denominator
Frac(a, b) ==
    LET g == GCD(Abs(a), Abs(b))
        s == IF b < 0 THEN -1 ELSE 1
    IN  [k |-> "num", n |-> s * (a \div g), d |-> s * (b \div g)]

IsNum(x) == x.k = "num"
IsNaN(x) == x.k = "nan"
IsInf(x) == x.k = "inf"

\* sign of x - y for two rationals, over the least common denominator
CmpNum(x, y) ==
    LET g == GCD(x.d, y.d)
    IN  Sign(x.n * (y.d \div g) - y.n * (x.d \div g))

\* sign of x - y for two non-NaN floats
Cmp(x, y) ==
    CASE IsInf(x) /\ IsInf(y) -> Sign(x.n - y.n)
      [] IsInf(x) -> x.n
      [] IsInf(y) -> -y.n
      [] OTHER -> CmpNum(x, y)

\* float comparisons: False as soon as one side is NaN
Gt(x, y) == ~IsNaN(x) /\ ~IsNaN(y) /\ Cmp(x, y) > 0
Ge(x, y) == ~IsNaN(x) /\ ~IsNaN(y) /\ Cmp(x, y) >= 0
Lt(x, y) == ~IsNaN(x) /\ ~IsNaN(y) /\ Cmp(x, y) < 0
Le(x, y) == ~IsNaN(x) /\ ~IsNaN(y) /\ Cmp(x, y) <= 0

\* float arithmetic (exact on rationals; NaN and infinities as in IEEE 754)
Neg(x) ==
    CASE IsNaN(x) -> NaN
      [] IsInf(x) -> [x EXCEPT !.n = -x.n]
      [] OTHER -> [x EXCEPT !.n = -x.n]

Add(x, y) ==
    CASE IsNaN(x) \/ IsNaN(y) -> NaN
      [] IsInf(x) /\ IsInf(y) -> IF x.n = y.n THEN x ELSE NaN
      [] IsInf(x) -> x
      [] IsInf(y) -> y
      [] OTHER ->
            LET g == GCD(x.d, y.d)
            IN  Frac(x.n * (y.d \div g) + y.n * (x.d \div g), (x.d \div g) * y.d)

Sub(x, y) == Add(x, Neg(y))

Mul(x, y) ==
    CASE IsNaN(x) \/ IsNaN(y) -> NaN
      [] IsInf(x) /\ IsInf(y) -> [x EXCEPT !.n = x.n * y.n]
      [] IsInf(x) -> IF y.n = 0 THEN NaN ELSE [x EXCEPT !.n = x.n * Sign(y.n)]
      [] IsInf(y) -> IF x.n = 0 THEN NaN ELSE [y EXCEPT !.n = y.n * Sign(x.n)]
      [] OTHER ->
            LET g1 == GCD(Abs(x.n), y.d)
                g2 == GCD(Abs(y.n), x.d)
            IN  Frac((x.n \div g1) * (y.n \div g2), (x.d \div g2) * (y.d \div g1))

\* x / y: a zero divisor gives NaN (0/0) or an infinity, never an exception
Div(x, y) ==
    CASE IsNaN(x) \/ IsNaN(y) -> NaN
      [] IsInf(x) /\ IsInf(y) -> NaN
      [] IsInf(x) -> [x EXCEPT !.n = x.n * (IF y.n < 0 THEN -1 ELSE 1)]
      [] IsInf(y) -> Num(0)
      [] y.n = 0 -> IF x.n = 0 THEN NaN ELSE IF x.n > 0 THEN PosInf ELSE NegInf
      [] OTHER -> Mul(x, Frac(y.d, y.n))

----------------------------------------------------------------------------
(* TechnicalIndicatorParams: the defaults StockAnalysisService.__init__ loads *)

ma_short == 5
ma_medium == 20
ma_long == 60
rsi_period == 14
volume_ma_period == 20
roc_periods == 10

----------------------------------------------------------------------------
(* Series operations of pandas used by the indicator engine.  A series is   *)
(* a sequence of values, index 1 is the oldest row.                         *)

RECURSIVE SumSeq(_, _, _)
\* s[lo] + ... + s[hi]
SumSeq(s, lo, hi) == IF lo > hi THEN Num(0) ELSE Add(SumSeq(s, lo, hi - 1), s[hi])

\* faulty variant, used to test the sensitivity of the properties: the window sum divided by window - 1
RollingMean_short(s, window, i) ==
    IF i < window THEN NaN
    ELSE Div(SumSeq(s, i - window + 1, i), Num(window - 1))

\* Series.rolling(window).mean() at row i: NaN until the window is full
RollingMean(s, window, i) ==
    IF i < window THEN NaN
    ELSE Div(SumSeq(s, i - window + 1, i), Num(window))

\* float64 keeps 53 significant bits and rounds every result to them; the
\* model keeps Grain = 2^10 steps per unit in the one place where exact
\* values outgrow TLC's integers, the exponential means: each row of an
\* exponential mean is rounded to the nearest multiple of 1 / Grain (a value
\* already on that grid, such as the mean of a constant series, is kept as
\* it is).  Differences smaller than 1 / Grain are therefore not resolved.
Grain == 2^10

Round(x) ==
    IF ~IsNum(x) THEN x
    ELSE LET q == x.n \div x.d
             r == x.n % x.d
         IN  Frac(q * Grain + ((r * Grain + (x.d \div 2)) \div x.d), Grain)

RECURSIVE EwmFrom(_, _, _, _, _)
\* rows lo..hi of Series.ewm(span=span, adjust=False).mean(), y being the
\* mean at row lo - 1: y[i] = (1 - a) * y[i-1] + a * x[i], a = 2 / (span + 1)
\* (the rows are computed by halves, which keeps the evaluation shallow)
EwmFrom(s, span, y, lo, hi) ==
    IF lo > hi THEN <<>>
    ELSE IF lo = hi
    THEN <<Round(Add(Mul(Frac(span - 1, span + 1), y),
                     Mul(Frac(2, span + 1), s[lo])))>>
    ELSE LET mid == (lo + hi) \div 2
             left == EwmFrom(s, span, y, lo, mid)
         IN  left \o EwmFrom(s, span, left[Len(left)], mid + 1, hi)

\* Series.ewm(span=span, adjust=False).mean(): y[1] = x[1], then as above
EwmMean(s, span) ==
    IF Len(s) = 0 THEN <<>> ELSE <<s[1]>> \o EwmFrom(s, span, s[1], 2, Len(s))

\* Series.diff() at row i
Diff(s, i) == IF i = 1 THEN NaN ELSE Sub(s[i], s[i - 1])

_calculate_ema(series, period) == EwmMean(series, period)

\* faulty variant, used to test the sensitivity of the properties: a flat window (0 / 0) reported as the neutral 50
_calculate_rsi_neutral(series, period) ==
    LET delta == [i \in 1..Len(series) |-> Diff(series, i)]
        up == [i \in 1..Len(series) |->
                  IF Gt(delta[i], Num(0)) THEN delta[i] ELSE Num(0)]
        down == [i \in 1..Len(series) |->
                  Neg(IF Lt(delta[i], Num(0)) THEN delta[i] ELSE Num(0))]
        gain == [i \in 1..Len(series) |-> RollingMean(up, period, i)]
        loss == [i \in 1..Len(series) |-> RollingMean(down, period, i)]
        rs == [i \in 1..Len(series) |-> Div(gain[i], loss[i])]
    IN  [i \in 1..Len(series) |->
            IF i >= period /\ IsNaN(rs[i]) THEN Num(50)
            ELSE Sub(Num(100), Div(Num(100), Add(Num(1), rs[i])))]

\* faulty variant, used to test the sensitivity of the properties: 100 / (1 + rs) without the 100 - in front
_calculate_rsi_inverted(series, period) ==
    LET delta == [i \in 1..Len(series) |-> Diff(series, i)]
        up == [i \in 1..Len(series) |->
                  IF Gt(delta[i], Num(0)) THEN delta[i] ELSE Num(0)]
        down == [i \in 1..Len(series) |->
                  Neg(IF Lt(delta[i], Num(0)) THEN delta[i] ELSE Num(0))]
        gain == [i \in 1..Len(series) |-> RollingMean(up, period, i)]
        loss == [i \in 1..Len(series) |-> RollingMean(down, period, i)]
        rs == [i \in 1..Len(series) |-> Div(gain[i], loss[i])]
    IN  [i \in 1..Len(series) |-> Div(Num(100), Add(Num(1), rs[i]))]

_calculate_rsi(series, period) ==
    LET delta == [i \in 1..Len(series) |-> Diff(series, i)]
        \* delta.where(delta > 0, 0): a NaN delta fails the test and becomes 0
        up == [i \in 1..Len(series) |->
                  IF Gt(delta[i], Num(0)) THEN delta[i] ELSE Num(0)]
        down == [i \in 1..Len(series) |->
                  Neg(IF Lt(delta[i], Num(0)) THEN delta[i] ELSE Num(0))]
        gain == [i \in 1..Len(series) |-> RollingMean(up, period, i)]
        loss == [i \in 1..Len(series) |-> RollingMean(down, period, i)]
        rs == [i \in 1..Len(series) |-> Div(gain[i], loss[i])]
    IN  [i \in 1..Len(series) |->
            Sub(Num(100), Div(Num(100), Add(Num(1), rs[i])))]

\* faulty variant, used to test the sensitivity of the properties: the two means subtracted the other way round
_calculate_macd_swapped(series) ==
    LET exp1 == EwmMean(series, 12)
        exp2 == EwmMean(series, 26)
        macd == [i \in 1..Len(series) |-> Sub(exp2[i], exp1[i])]
        signal == EwmMean(macd, 9)
    IN  <<macd, signal>>

\* <<macd, signal>>; the histogram column is derived and never read
_calculate_macd(series) ==
    LET exp1 == EwmMean(series, 12)
        exp2 == EwmMean(series, 26)
        macd == [i \in 1..Len(series) |-> Sub(exp1[i], exp2[i])]
        signal == EwmMean(macd, 9)
    IN  <<macd, signal>>

\* Series.pct_change(periods) at row i
PctChange(s, periods, i) ==
    IF i <= periods THEN NaN ELSE Div(Sub(s[i], s[i - periods]), s[i - periods])

Column(frame, name) == [i \in 1..Len(frame) |-> frame[i][name]]

\* the indicator columns calculate_indicators adds that the analysis reads,
\* one record per row of df (the Bollinger and ATR columns are written too
\* and read by nothing)
IndicatorColumns(frame) ==
    LET close == Column(frame, "close")
        volume == Column(frame, "volume")
        ma5 == _calculate_ema(close, ma_short)
        ma20 == _calculate_ema(close, ma_medium)
        ma60 == _calculate_ema(close, ma_long)
        rsi == _calculate_rsi(close, rsi_period)
        ms == _calculate_macd(close)
        vma == [i \in 1..Len(frame) |-> RollingMean(volume, volume_ma_period, i)]
    IN  [i \in 1..Len(frame) |->
            [close |-> close[i],
             MA5 |-> ma5[i], MA20 |-> ma20[i], MA60 |-> ma60[i],
             RSI |-> rsi[i],
             MACD |-> ms[1][i], Signal |-> ms[2][i],
             Volume_MA |-> vma[i],
             Volume_Ratio |-> Div(volume[i], vma[i]),
             ROC |-> Mul(PctChange(close, roc_periods, i), Num(100))]]

----------------------------------------------------------------------------
(* StockDataRequest and the upstream data source *)

\* characters a stock_code is drawn from: the digits the prefix test names
\* and one digit it does not
CodeChars == {"0", "1", "3", "6", "8"}

Codes(maxlen) == UNION {[1..k -> CodeChars] : k \in 0..maxlen}

\* "XX" stands for every market_type string the dispatch does not name
MarketTypes == {"A", "HK", "US", "ETF", "LOF", "XX"}

\* a date field of the request: absent, 'YYYYMMDD' of day 1..MaxDay, or text
\* that is no date
RequestDates == {None, Str} \cup {Day(i) : i \in 1..MaxDay}

AllRequests ==
    [stock_code : Codes(MaxCodeLen), market_type : MarketTypes,
     start_date : RequestDates, end_date : RequestDates]

FewRequests ==
    {r \in AllRequests :
        /\ r.stock_code = <<"6">>
        /\ r.market_type \in {"A", "HK"}
        /\ r.start_date = None /\ r.end_date = None}

\* datetime.now() - 365 days, and datetime.now(), formatted
YearAgo == [k |-> "year_ago", n |-> 0, d |-> 1]
Today == [k |-> "today", n |-> 0, d |-> 1]
Omitted == [k |-> "omitted", n |-> 0, d |-> 1]

\* `value or default`
OrDefault(value, default) == IF value = None THEN default ELSE value

startswith(s, prefix) ==
    Len(prefix) <= Len(s) /\ SubSeq(s, 1, Len(prefix)) = prefix

\* faulty variant, used to test the sensitivity of the properties: the prefix '8' left out of the list
valid_prefixes_no8 == {<<"0">>, <<"3">>, <<"6">>, <<"6", "8", "8">>}

valid_prefixes == {<<"0">>, <<"3">>, <<"6">>, <<"6", "8", "8">>, <<"8">>}

ValidACode(stock_code) == \E prefix \in valid_prefixes : startswith(stock_code, prefix)

\* faulty variant, used to test the sensitivity of the properties: the final else falls back to the A-share source
UpstreamApi_fallback ==
    [A |-> "stock_zh_a_hist", HK |-> "stock_hk_daily", US |-> "stock_us_hist",
     ETF |-> "fund_etf_hist_em", LOF |-> "fund_lof_hist_em",
     XX |-> "stock_zh_a_hist"]

\* market_type -> the akshare function the if/elif chain dispatches to
UpstreamApi ==
    [A |-> "stock_zh_a_hist", HK |-> "stock_hk_daily", US |-> "stock_us_hist",
     ETF |-> "fund_etf_hist_em", LOF |-> "fund_lof_hist_em"]

SupportedMarkets == DOMAIN UpstreamApi

\* the call get_stock_data issues for a request (stock_hk_daily takes no dates)
UpstreamCall(req) ==
    LET start_date == OrDefault(req.start_date, YearAgo)
        end_date == OrDefault(req.end_date, Today)
    IN  [api |-> UpstreamApi[req.market_type], symbol |-> req.stock_code,
         start_date |-> IF req.market_type = "HK" THEN Omitted ELSE start_date,
         end_date |-> IF req.market_type = "HK" THEN Omitted ELSE end_date]

\* a row of an upstream frame: the six renamed columns and `other`, which
\* stands for the columns of the frame the rename does not touch
ValidRows ==
    [date : {Day(i) : i \in 1..MaxDay}, open : {Num(1)},
     close : {Num(c) : c \in 1..MaxClose}, high : {Num(1)}, low : {Num(1)},
     volume : {Num(1)}, other : {Num(1)}]

BaseRow ==
    [date |-> Day(1), open |-> Num(1), close |-> Num(1), high |-> Num(1),
     low |-> Num(1), volume |-> Num(1), other |-> Num(1)]

\* rows with one cell missing (NaN) or holding text that is no number/date
BadRows ==
    {[BaseRow EXCEPT !.date = NaN], [BaseRow EXCEPT !.date = Str],
     [BaseRow EXCEPT !.open = Str], [BaseRow EXCEPT !.close = Str],
     [BaseRow EXCEPT !.close = NaN], [BaseRow EXCEPT !.high = Str],
     [BaseRow EXCEPT !.low = Str], [BaseRow EXCEPT !.volume = Str],
     [BaseRow EXCEPT !.other = NaN]}

RawRows == ValidRows \cup BadRows

\* a frame without the expected columns (akshare's empty DataFrame)
NoColumns == [cols |-> FALSE, rows |-> <<>>]

AllFrames ==
    {NoColumns} \cup
    {[cols |-> TRUE, rows |-> r] : r \in UNION {[1..k -> RawRows] : k \in 0..MaxRaw}}

FewFrames ==
    {[cols |-> TRUE,
      rows |-> <<[BaseRow EXCEPT !.date = Day(1)],
                 [BaseRow EXCEPT !.date = Day(2), !.close = Num(2)]>>]}

----------------------------------------------------------------------------
(* get_stock_data: preprocessing of the frame *)

\* pd.to_datetime (errors='raise'): text that is no date raises
to_datetime(cell) == IF cell.k = "date" THEN cell ELSE NaN

\* faulty variant, used to test the sensitivity of the properties: errors='ignore', text is left as it is
to_numeric_ignore(cell) == cell

\* pd.to_numeric(errors='coerce'): text that is no number becomes NaN
to_numeric(cell) == IF cell.k = "num" THEN cell ELSE NaN

Coerce(row) ==
    [date |-> to_datetime(row.date), open |-> to_numeric(row.open),
     close |-> to_numeric(row.close), high |-> to_numeric(row.high),
     low |-> to_numeric(row.low), volume |-> to_numeric(row.volume),
     other |-> row.other]

HasNa(row) == \E c \in DOMAIN row : IsNaN(row[c])

\* DataFrame.dropna(): drops a row that has a missing value in any column
dropna(rows) == SelectSeq(rows, LAMBDA r : ~HasNa(r))

\* DataFrame.sort_values('date'): ascending; the default sort is not stable,
\* so rows with equal dates may come out in any order
sort_values(rows) ==
    {[i \in 1..Len(rows) |-> rows[p[i]]] : p \in
        {q \in Permutations(1..Len(rows)) :
            \A i, j \in 1..Len(rows) :
                i < j => rows[q[i]].date.n <= rows[q[j]].date.n}}

----------------------------------------------------------------------------
(* Scoring and the report *)

\* faulty variant, used to test the sensitivity of the properties: the 15 volume points given from a ratio of 1 on (>= for >)
_calculate_score_ge1(frame) ==
    LET latest == frame[Len(frame)]
    IN  (IF Gt(latest.MA5, latest.MA20) THEN 15 ELSE 0)
      + (IF Gt(latest.MA20, latest.MA60) THEN 15 ELSE 0)
      + (IF Le(Num(30), latest.RSI) /\ Le(latest.RSI, Num(70)) THEN 20
         ELSE IF Lt(latest.RSI, Num(30)) THEN 15 ELSE 0)
      + (IF Gt(latest.MACD, latest.Signal) THEN 20 ELSE 0)
      + (IF Gt(latest.Volume_Ratio, Frac(15, 10)) THEN 30
         ELSE IF Ge(latest.Volume_Ratio, Num(1)) THEN 15 ELSE 0)

\* faulty variant, used to test the sensitivity of the properties: each trend test worth the 30 points of the whole trend bucket
_calculate_score_trend30(frame) ==
    LET latest == frame[Len(frame)]
    IN  (IF Gt(latest.MA5, latest.MA20) THEN 30 ELSE 0)
      + (IF Gt(latest.MA20, latest.MA60) THEN 30 ELSE 0)
      + (IF Le(Num(30), latest.RSI) /\ Le(latest.RSI, Num(70)) THEN 20
         ELSE IF Lt(latest.RSI, Num(30)) THEN 15 ELSE 0)
      + (IF Gt(latest.MACD, latest.Signal) THEN 20 ELSE 0)
      + (IF Gt(latest.Volume_Ratio, Frac(15, 10)) THEN 30
         ELSE IF Gt(latest.Volume_Ratio, Num(1)) THEN 15 ELSE 0)

_calculate_score(frame) ==
    LET latest == frame[Len(frame)]
    IN  (IF Gt(latest.MA5, latest.MA20) THEN 15 ELSE 0)
      + (IF Gt(latest.MA20, latest.MA60) THEN 15 ELSE 0)
      + (IF Le(Num(30), latest.RSI) /\ Le(latest.RSI, Num(70)) THEN 20
         ELSE IF Lt(latest.RSI, Num(30)) THEN 15 ELSE 0)
      + (IF Gt(latest.MACD, latest.Signal) THEN 20 ELSE 0)
      + (IF Gt(latest.Volume_Ratio, Frac(15, 10)) THEN 30
         ELSE IF Gt(latest.Volume_Ratio, Num(1)) THEN 15 ELSE 0)

\* faulty variant, used to test the sensitivity of the properties: the top threshold exclusive (> 80 for >= 80)
_get_recommendation_gt80(s) ==
    IF Gt(s, Num(80)) THEN "strongly buy"
    ELSE IF Ge(s, Num(60)) THEN "buy"
    ELSE IF Ge(s, Num(40)) THEN "hold"
    ELSE IF Ge(s, Num(20)) THEN "sell"
    ELSE "strongly sell"

\* the five labels, in the source's order (the source's literals are Chinese)
_get_recommendation(s) ==
    IF Ge(s, Num(80)) THEN "strongly buy"
    ELSE IF Ge(s, Num(60)) THEN "buy"
    ELSE IF Ge(s, Num(40)) THEN "hold"
    ELSE IF Ge(s, Num(20)) THEN "sell"
    ELSE "strongly sell"

\* faulty variant, used to test the sensitivity of the properties: rsi passed on without the pd.isna test
StockAnalysisResult_rsi_unchecked(req, frame, s) ==
    LET latest == frame[Len(frame)]
        prev == frame[Len(frame) - 1]
    IN  [stock_code |-> req.stock_code,
         market_type |-> req.market_type,
         analysis_date |-> Today,
         score |-> s,
         price |-> latest.close,
         price_change |-> Mul(Div(Sub(latest.close, prev.close), prev.close), Num(100)),
         ma_trend |-> IF Gt(latest.MA5, latest.MA20) THEN "UP" ELSE "DOWN",
         rsi |-> latest.RSI,
         macd_signal |-> IF Gt(latest.MACD, latest.Signal) THEN "BUY" ELSE "SELL",
         volume_status |-> IF Gt(latest.Volume_Ratio, Frac(15, 10)) THEN "HIGH" ELSE "NORMAL",
         recommendation |-> _get_recommendation(s)]

\* faulty variant, used to test the sensitivity of the properties: ma_trend decided with >= for >
StockAnalysisResult_ma_ge(req, frame, s) ==
    LET latest == frame[Len(frame)]
        prev == frame[Len(frame) - 1]
    IN  [stock_code |-> req.stock_code,
         market_type |-> req.market_type,
         analysis_date |-> Today,
         score |-> s,
         price |-> latest.close,
         price_change |-> Mul(Div(Sub(latest.close, prev.close), prev.close), Num(100)),
         ma_trend |-> IF Ge(latest.MA5, latest.MA20) THEN "UP" ELSE "DOWN",
         rsi |-> IF ~IsNaN(latest.RSI) THEN latest.RSI ELSE None,
         macd_signal |-> IF Gt(latest.MACD, latest.Signal) THEN "BUY" ELSE "SELL",
         volume_status |-> IF Gt(latest.Volume_Ratio, Frac(15, 10)) THEN "HIGH" ELSE "NORMAL",
         recommendation |-> _get_recommendation(s)]

\* the StockAnalysisResult analyze_stock assembles from the last two rows
StockAnalysisResult(req, frame, s) ==
    LET latest == frame[Len(frame)]
        prev == frame[Len(frame) - 1]
    IN  [stock_code |-> req.stock_code,
         market_type |-> req.market_type,
         analysis_date |-> Today,
         score |-> s,
         price |-> latest.close,
         price_change |-> Mul(Div(Sub(latest.close, prev.close), prev.close), Num(100)),
         ma_trend |-> IF Gt(latest.MA5, latest.MA20) THEN "UP" ELSE "DOWN",
         rsi |-> IF ~IsNaN(latest.RSI) THEN latest.RSI ELSE None,
         macd_signal |-> IF Gt(latest.MACD, latest.Signal) THEN "BUY" ELSE "SELL",
         volume_status |-> IF Gt(latest.Volume_Ratio, Frac(15, 10)) THEN "HIGH" ELSE "NORMAL",
         recommendation |-> _get_recommendation(s)]

----------------------------------------------------------------------------
(* State machine of one analyze_stock invocation.  pc is the position:     *)
(*   "start"       analyze_stock entered, get_stock_data not yet past its  *)
(*                 checks                                                  *)
(*   "fetching"    the akshare call is in flight                           *)
(*   "fetched"     the call returned a frame                               *)
(*   "normalized"  get_stock_data returned df                              *)
(*   "indicators"  calculate_indicators returned                           *)
(*   "scored"      _calculate_score returned                               *)
(*   "done"        the report was returned                                 *)
(*   "failed"      an exception left analyze_stock                         *)
(* The endpoint answers once the service call has returned or raised;     *)
(* response is NoResponse until then.                                      *)
(* Both except blocks log and re-raise, so the exception that leaves       *)
(* analyze_stock is the one that was raised.                               *)

NoError == [type |-> "none", at |-> "none"]
Raised(type, at) == [type |-> type, at |-> at]

NoFrame == [cols |-> FALSE, rows |-> <<>>]
NoResponse == [status_code |-> 0, success |-> FALSE, message |-> "none", data |-> <<>>]

\* faulty variant, used to test the sensitivity of the properties: the handler raises a new exception of its own
except_Exception_wrap(e) == [type |-> "RuntimeError", at |-> e.at]

\* `except Exception as e: logger.error(...); raise`: the handlers of
\* get_stock_data, calculate_indicators, _calculate_score and analyze_stock
\* log and re-raise the exception in flight
except_Exception(e) == e

Fail(type, at) ==
    /\ pc' = "failed"
    /\ error' = except_Exception(Raised(type, at))

InitWith(requests) ==
    /\ pc = "start"
    /\ request \in requests
    /\ calls = <<>>
    /\ raw = NoFrame
    /\ df = <<>>
    /\ ind = <<>>
    /\ score = None
    /\ report = <<>>
    /\ error = NoError
    /\ response = NoResponse

\* get_stock_data up to the akshare call: the date defaults, the A-share
\* prefix test, the dispatch on market_type
get_stock_data_Request ==
    /\ pc = "start"
    /\ IF request.market_type = "A" /\ ~ValidACode(request.stock_code)
       THEN Fail("ValueError", "get_stock_data") /\ UNCHANGED calls
       ELSE IF request.market_type \notin SupportedMarkets
       THEN Fail("ValueError", "get_stock_data") /\ UNCHANGED calls
       ELSE /\ calls' = Append(calls, UpstreamCall(request))
            /\ pc' = "fetching"
            /\ UNCHANGED error
    /\ UNCHANGED <<response, request, raw, df, ind, score, report>>

\* the akshare call returns a frame
UpstreamReturns(frames) ==
    /\ pc = "fetching"
    /\ \E frame \in frames : raw' = frame
    /\ pc' = "fetched"
    /\ UNCHANGED <<response, request, calls, df, ind, score, report, error>>

\* the akshare call raises (network failure, malformed response)
UpstreamRaises ==
    /\ pc = "fetching"
    /\ Fail("UpstreamError", "akshare")
    /\ UNCHANGED <<response, request, calls, raw, df, ind, score, report>>

\* get_stock_data after the call: rename, to_datetime, to_numeric, dropna,
\* sort_values, return
get_stock_data_Preprocess ==
    /\ pc = "fetched"
    /\ IF ~raw.cols
       THEN Fail("KeyError", "get_stock_data") /\ UNCHANGED df
       ELSE IF \E i \in 1..Len(raw.rows) : raw.rows[i].date.k = "str"
       THEN Fail("DateParseError", "get_stock_data") /\ UNCHANGED df
       ELSE /\ df' \in sort_values(dropna([i \in 1..Len(raw.rows) |-> Coerce(raw.rows[i])]))
            /\ pc' = "normalized"
            /\ UNCHANGED error
    /\ UNCHANGED <<response, request, calls, raw, ind, score, report>>

calculate_indicators ==
    /\ pc = "normalized"
    /\ ind' = IndicatorColumns(df)
    /\ pc' = "indicators"
    /\ UNCHANGED <<response, request, calls, raw, df, score, report, error>>

\* score = self._calculate_score(stock_data); df.iloc[-1] raises on no rows
analyze_stock_Score ==
    /\ pc = "indicators"
    /\ IF Len(ind) = 0
       THEN Fail("IndexError", "_calculate_score") /\ UNCHANGED score
       ELSE /\ score' = Num(_calculate_score(ind))
            /\ pc' = "scored"
            /\ UNCHANGED error
    /\ UNCHANGED <<response, request, calls, raw, df, ind, report>>

\* latest, prev = iloc[-1], iloc[-2] (raises on one row); build and return
analyze_stock_Report ==
    /\ pc = "scored"
    /\ IF Len(ind) < 2
       THEN Fail("IndexError", "analyze_stock") /\ UNCHANGED report
       ELSE /\ report' = <<StockAnalysisResult(request, ind, score)>>
            /\ pc' = "done"
            /\ UNCHANGED error
    /\ UNCHANGED <<response, request, calls, raw, df, ind, score>>

\* utils/response.py.  The message of an error response is the prefix the
\* endpoint chose followed by str(e); the model keeps the prefix (the labels
\* are English renderings of the Chinese literals).
status_code_success == 200
status_code_error == 500

CustomResponse_success(data, message, status_code) ==
    [status_code |-> status_code, success |-> TRUE, message |-> message,
     data |-> data]

CustomResponse_error(message, status_code, data) ==
    [status_code |-> status_code, success |-> FALSE, message |-> message,
     data |-> data]

\* api/v1/endpoints/stock_analysis.py, analyze_stock: the service call has
\* returned or raised; both except branches call CustomResponse.error with
\* the message alone, so status_code takes its default
endpoint_analyze_stock ==
    /\ pc \in {"done", "failed"}
    /\ response = NoResponse
    /\ response' =
          IF pc = "done"
          THEN CustomResponse_success(report, "Success", status_code_success)
          ELSE IF error.type = "ValueError"
          THEN CustomResponse_error("parameter error", status_code_error, <<>>)
          ELSE CustomResponse_error("analysis failed", status_code_error, <<>>)
    /\ UNCHANGED <<pc, request, calls, raw, df, ind, score, report, error>>

NextWith(frames) ==
    \/ get_stock_data_Request
    \/ UpstreamReturns(frames)
    \/ UpstreamRaises
    \/ get_stock_data_Preprocess
    \/ calculate_indicators
    \/ analyze_stock_Score
    \/ analyze_stock_Report
    \/ endpoint_analyze_stock

\* one invocation, a few requests, every upstream frame within the bounds
Init == InitWith(FewRequests)
Next == NextWith(AllFrames)
Spec == Init /\ [][Next]_vars

\* one invocation, every request within the bounds, one upstream frame
InitRequest == InitWith(AllRequests)
NextRequest == NextWith(FewFrames)
SpecRequest == InitRequest /\ [][NextRequest]_vars


----------------------------------------------------------------------------
(* The Scorer and the mapper as functions: the invocation is entered after *)
(* calculate_indicators (resp. after _calculate_score) with the values     *)
(* drawn from bounded sets.                                                *)

MAValues == {NaN, Num(1), Num(2), Num(3)}
RSIValues ==
    {NaN, Num(0), Num(29), Frac(299, 10), Num(30), Num(50), Num(70),
     Frac(701, 10), Num(100)}
MACDValues == {NaN, Num(-1), Num(1)}
RatioValues == {NaN, Frac(1, 2), Num(1), Frac(5, 4), Frac(3, 2), Num(2)}

Snapshots ==
    [close : {Num(2)}, MA5 : MAValues, MA20 : MAValues, MA60 : MAValues,
     RSI : RSIValues, MACD : MACDValues, Signal : MACDValues,
     Volume_MA : {NaN}, Volume_Ratio : RatioValues, ROC : {NaN}]

\* the row before the latest: one with nothing defined, one that would earn
\* every point
PrevSnapshots ==
    {[close |-> Num(1), MA5 |-> NaN, MA20 |-> NaN, MA60 |-> NaN, RSI |-> NaN,
      MACD |-> NaN, Signal |-> NaN, Volume_MA |-> NaN, Volume_Ratio |-> NaN,
      ROC |-> NaN],
     [close |-> Num(1), MA5 |-> Num(3), MA20 |-> Num(2), MA60 |-> Num(1),
      RSI |-> Num(50), MACD |-> Num(1), Signal |-> Num(-1), Volume_MA |-> NaN,
      Volume_Ratio |-> Num(2), ROC |-> NaN]}

TheRequest ==
    [stock_code |-> <<"6">>, market_type |-> "A", start_date |-> None,
     end_date |-> None]

InitScore ==
    /\ pc = "indicators"
    /\ request = TheRequest
    /\ calls = <<>>
    /\ raw = NoFrame
    /\ df = <<>>
    /\ ind \in {<<prev, latest>> : prev \in PrevSnapshots, latest \in Snapshots}
    /\ score = None
    /\ report = <<>>
    /\ error = NoError
    /\ response = NoResponse
NextScore == analyze_stock_Score \/ analyze_stock_Report
SpecScore == InitScore /\ [][NextScore]_vars

\* scores in steps of a tenth
RecScores == {Frac(t, 10) : t \in -10..(10 * MaxRecScore)}

InitRec ==
    /\ pc = "scored"
    /\ request = TheRequest
    /\ calls = <<>>
    /\ raw = NoFrame
    /\ df = <<>>
    /\ ind \in {<<prev, prev>> : prev \in PrevSnapshots}
    /\ score \in RecScores
    /\ report = <<>>
    /\ error = NoError
    /\ response = NoResponse
NextRec == analyze_stock_Report
SpecRec == InitRec /\ [][NextRec]_vars

----------------------------------------------------------------------------
(* Claims about the Scorer (checked under SpecScore) *)

Latest == ind[Len(ind)]
Returned == pc \in {"scored", "done"}

Defined(x) == x.k # "nan"
AllDefined(bar) ==
    /\ Defined(bar.MA5) /\ Defined(bar.MA20) /\ Defined(bar.MA60)
    /\ Defined(bar.RSI) /\ Defined(bar.MACD) /\ Defined(bar.Signal)
    /\ Defined(bar.Volume_Ratio)

\* x > y and x >= y on two defined, finite values, by cross-multiplication
Above(x, y) == x.n * y.d > y.n * x.d
AtLeast(x, y) == x.n * y.d >= y.n * x.d
Iverson(b) == IF b THEN 1 ELSE 0

TrendBucket(bar) ==
    15 * Iverson(Above(bar.MA5, bar.MA20)) + 15 * Iverson(Above(bar.MA20, bar.MA60))
RsiBucket(bar) ==
    CASE Above(bar.RSI, Num(70)) -> 0
      [] Above(Num(30), bar.RSI) -> 15
      [] OTHER -> 20
MacdBucket(bar) == 20 * Iverson(Above(bar.MACD, bar.Signal))
VolumeBucket(bar) ==
    CASE Above(bar.Volume_Ratio, Frac(3, 2)) -> 30
      [] Above(bar.Volume_Ratio, Num(1)) /\ AtLeast(Frac(3, 2), bar.Volume_Ratio) -> 15
      [] OTHER -> 0

\* C1: when every indicator of the latest bar is defined, the score is the
\* sum of the four buckets (trend 15+15, RSI 20/15/0, MACD 20/0, volume
\* 30/15/0), each computed from the latest bar alone
C1_ScoreIsSumOfBuckets ==
    (Returned /\ AllDefined(Latest)) =>
        score = Num(TrendBucket(Latest) + RsiBucket(Latest)
                    + MacdBucket(Latest) + VolumeBucket(Latest))

\* a scored latest bar with everything defined, an oversold RSI and a volume
\* ratio between 1 and 1.5, under a previous bar that would earn 100
C1_Witness ==
    /\ pc = "scored"
    /\ AllDefined(Latest)
    /\ Above(Num(30), Latest.RSI)
    /\ Latest.Volume_Ratio = Frac(5, 4)
    /\ ind[1].Volume_Ratio = Num(2)
    /\ score = Num(45)

\* C2: whatever is defined or undefined on the latest bar, the score lies
\* in 0..100
C2_ScoreInRange ==
    Returned => (score.k = "num" /\ score.d = 1 /\ 0 <= score.n /\ score.n <= 100)

\* the full 100 is reached
C2_Witness ==
    /\ pc = "scored"
    /\ AllDefined(Latest)
    /\ score = Num(100)

----------------------------------------------------------------------------
(* Claim about the recommendation mapper (checked under SpecRec) *)

\* a score of RecScores in tenths
Tenths(s) == (s.n * 10) \div s.d

LabelFor(t) ==
    CASE t >= 800 -> "strongly buy"
      [] 600 <= t /\ t < 800 -> "buy"
      [] 400 <= t /\ t < 600 -> "hold"
      [] 200 <= t /\ t < 400 -> "sell"
      [] t < 200 -> "strongly sell"

Rank(label) ==
    CASE label = "strongly sell" -> 0
      [] label = "sell" -> 1
      [] label = "hold" -> 2
      [] label = "buy" -> 3
      [] label = "strongly buy" -> 4

\* C3: the label of a report is the one the thresholds 80/60/40/20 give
\* (each threshold itself on the buy side), and no higher score gets a
\* label nearer to sell
C3_RecommendationByThreshold ==
    pc = "done" =>
        /\ report[1].recommendation = LabelFor(Tenths(score))
        /\ \A s \in RecScores :
              Tenths(s) >= Tenths(score) =>
                  Rank(_get_recommendation(s)) >= Rank(report[1].recommendation)

\* the boundary 80 is reported as strongly buy
C3_Witness ==
    /\ pc = "done"
    /\ score = Num(80)
    /\ report[1].recommendation = "strongly buy"

----------------------------------------------------------------------------
(* Claim about undefined indicators (checked under SpecUndefined: the      *)
(* invocation from its start, and entered after calculate_indicators with  *)
(* drawn values)                                                           *)

\* latest bars for the undefined cases: each input undefined or one of two
\* values
UndefinedSnapshots ==
    {bar \in Snapshots :
        /\ bar.MA5 \in {NaN, Num(2)} /\ bar.MA20 \in {NaN, Num(1), Num(3)}
        /\ bar.MA60 \in {NaN, Num(2)}
        /\ bar.RSI \in {NaN, Num(29), Num(50)}
        /\ bar.MACD \in {NaN, Num(1)} /\ bar.Signal \in {NaN, Num(-1)}
        /\ bar.Volume_Ratio \in {NaN, Frac(5, 4), Num(2)}}

InitUndefined ==
    \/ Init
    \/ /\ pc = "indicators"
       /\ request = TheRequest
       /\ calls = <<>>
       /\ raw = NoFrame
       /\ df = <<>>
       /\ ind \in {<<prev, latest>> : prev \in PrevSnapshots, latest \in UndefinedSnapshots}
       /\ score = None
       /\ report = <<>>
       /\ error = NoError
       /\ response = NoResponse

SpecUndefined == InitUndefined /\ [][Next]_vars

\* the buckets with every test that reads an undefined value counted as 0
TrendPoints(bar) ==
    (IF Defined(bar.MA5) /\ Defined(bar.MA20) /\ Above(bar.MA5, bar.MA20) THEN 15 ELSE 0)
  + (IF Defined(bar.MA20) /\ Defined(bar.MA60) /\ Above(bar.MA20, bar.MA60) THEN 15 ELSE 0)
RsiPoints(bar) == IF Defined(bar.RSI) THEN RsiBucket(bar) ELSE 0
MacdPoints(bar) ==
    IF Defined(bar.MACD) /\ Defined(bar.Signal) THEN MacdBucket(bar) ELSE 0
VolumePoints(bar) == IF Defined(bar.Volume_Ratio) THEN VolumeBucket(bar) ELSE 0

\* C4: once get_stock_data has returned a series of at least 2 rows no
\* step of the analysis fails, whatever is undefined on the latest bar; a
\* test of the rubric that reads an undefined value (RSI, volume ratio, a
\* moving average, MACD or signal) adds 0, and the report is built with an
\* undefined RSI as None and an undefined volume ratio as NORMAL
C4_UndefinedContributesZero ==
    /\ (Len(df) >= 2 \/ Len(ind) >= 2) => error = NoError
    /\ (pc = "failed" /\ error.at \in {"calculate_indicators", "_calculate_score", "analyze_stock"})
          => Len(ind) < 2
    /\ Returned =>
          score = Num(TrendPoints(Latest) + RsiPoints(Latest)
                      + MacdPoints(Latest) + VolumePoints(Latest))
    /\ pc = "done" =>
          /\ error = NoError
          /\ ~Defined(Latest.RSI) => report[1].rsi = None
          /\ ~Defined(Latest.Volume_Ratio) => report[1].volume_status = "NORMAL"

\* a report on a fetched series whose latest bar is inside the RSI and the
\* volume warm-up windows
C4_Witness ==
    /\ pc = "done"
    /\ Len(df) >= 2
    /\ ~Defined(Latest.RSI)
    /\ ~Defined(Latest.Volume_Ratio)
    /\ report[1].rsi = None
    /\ report[1].volume_status = "NORMAL"
    /\ score = Num(50)

----------------------------------------------------------------------------
(* Claims about the checks of get_stock_data (checked under SpecRequest) *)

Entered == pc # "start"

\* the request was refused by get_stock_data itself, before any upstream call
Rejected ==
    /\ pc = "failed"
    /\ error = Raised("ValueError", "get_stock_data")
    /\ calls = <<>>

\* the one upstream call of the invocation was issued
Called == Len(calls) = 1

HasPrefix(code, prefix) ==
    /\ Len(code) >= Len(prefix)
    /\ \A i \in 1..Len(prefix) : code[i] = prefix[i]

ClaimedPrefixes == {<<"0">>, <<"3">>, <<"6">>, <<"6", "8", "8">>, <<"8">>}

\* C5: an A-share request is accepted (its upstream call is issued) iff the
\* code starts with 0, 3, 6, 688 or 8, otherwise it fails with ValueError
\* and no upstream call; for HK, US, ETF and LOF the code is not looked at
C5_ASharePrefix ==
    Entered =>
        /\ request.market_type = "A" =>
              IF \E prefix \in ClaimedPrefixes : HasPrefix(request.stock_code, prefix)
              THEN Called /\ ~Rejected
              ELSE Rejected
        /\ request.market_type \in {"HK", "US", "ETF", "LOF"} => Called

\* an A-share code starting with 1 is refused with nothing fetched
C5_Witness ==
    /\ request.market_type = "A"
    /\ Len(request.stock_code) = MaxCodeLen
    /\ request.stock_code[1] = "1"
    /\ Rejected

\* C6: a market_type outside A, HK, US, ETF, LOF fails with ValueError and
\* no upstream call is made
C6_UnsupportedMarket ==
    (Entered /\ request.market_type \notin {"A", "HK", "US", "ETF", "LOF"}) => Rejected

\* an unsupported market with a code that would pass the A-share test
C6_Witness ==
    /\ request.market_type = "XX"
    /\ request.stock_code = <<"6">>
    /\ Rejected

BadDates(req) ==
    \/ req.start_date.k = "str"
    \/ req.end_date.k = "str"
    \/ /\ req.start_date.k = "date"
       /\ req.end_date.k = "date"
       /\ req.end_date.n < req.start_date.n

\* C7: a request whose end_date is before its start_date, or whose dates
\* are malformed, fails with ValueError before any upstream call
C7_BadDatesRejected ==
    (Entered /\ BadDates(request)) => Rejected

----------------------------------------------------------------------------
(* Claims about the normalization in get_stock_data (checked under Spec) *)

\* get_stock_data has returned df
Normalized == pc \in {"normalized", "indicators", "scored", "done"}
\* the upstream frame has been handed to the preprocessing
Preprocessed == Normalized \/ (pc = "failed" /\ error.at # "akshare")

SixValid(row) ==
    /\ row.date.k = "date"
    /\ row.open.k = "num" /\ row.close.k = "num" /\ row.high.k = "num"
    /\ row.low.k = "num" /\ row.volume.k = "num"

Complete(row) == SixValid(row) /\ row.other.k # "nan"

Occurrences(rows, row) == Cardinality({i \in 1..Len(rows) : rows[i] = row})

NumberSixValid(rows) == Cardinality({i \in 1..Len(rows) : SixValid(rows[i])})

\* C8: with fewer than 2 valid rows the analysis fails with a data-quality
\* error of its own kind, raised by the normalization, before indicators
\* are computed and before scoring
C8_TooFewRowsIsDataQualityError ==
    (Preprocessed /\ raw.cols /\ NumberSixValid(raw.rows) < 2) =>
        /\ pc = "failed"
        /\ error.type \notin {"ValueError", "UpstreamError", "IndexError", "KeyError"}
        /\ error.at = "get_stock_data"
        /\ ind = <<>>
        /\ score = None

\* C9: the dates of the normalized series are strictly increasing
C9_DatesStrictlyIncreasing ==
    Normalized => \A i, j \in 1..Len(df) : i < j => df[i].date.n < df[j].date.n

----------------------------------------------------------------------------
(* Claims about the outcome of analyze_stock (checked under Spec) *)

ResultFields ==
    {"stock_code", "market_type", "analysis_date", "score", "price",
     "price_change", "ma_trend", "rsi", "macd_signal", "volume_status",
     "recommendation"}

\* the exception the step at the current position raises when it fails
StepFailure ==
    CASE pc = "start" -> Raised("ValueError", "get_stock_data")
      [] pc = "fetching" -> Raised("UpstreamError", "akshare")
      [] pc = "fetched" ->
            IF ~raw.cols THEN Raised("KeyError", "get_stock_data")
            ELSE Raised("DateParseError", "get_stock_data")
      [] pc = "indicators" -> Raised("IndexError", "_calculate_score")
      [] pc = "scored" -> Raised("IndexError", "analyze_stock")
      [] OTHER -> NoError

C11_Step ==
    /\ (pc # "failed" /\ pc' = "failed") =>
          /\ error' = StepFailure
          /\ report' = <<>>
    /\ pc' = "done" =>
          /\ Len(report') = 1
          /\ DOMAIN report'[1] = ResultFields
          /\ error' = NoError
    /\ pc' # "done" => report' = <<>>
    /\ pc' # "failed" => error' = NoError
    /\ pc \in {"done", "failed"} => (pc' = pc /\ report' = report /\ error' = error)

\* C11: an invocation of analyze_stock ends either with one complete
\* StockAnalysisResult and no exception, or with an exception and no result;
\* the exception that leaves analyze_stock is the one the failing step
\* (fetch, normalization, scoring, report) raised, kind and origin unchanged,
\* and an outcome once reached is never replaced
C11_FailurePropagatesUnchanged == [][C11_Step]_vars

\* the scoring step failed on an empty series and its IndexError left
\* analyze_stock with nothing returned
C11_Witness ==
    /\ pc = "failed"
    /\ error = Raised("IndexError", "_calculate_score")
    /\ Len(calls) = 1
    /\ report = <<>>

----------------------------------------------------------------------------
(* Claims about the labels of the report (checked under SpecLabels: the    *)
(* invocations of Spec and those entered after calculate_indicators with a *)
(* drawn latest bar)                                                       *)

InitLabels == Init \/ InitScore
SpecLabels == InitLabels /\ [][Next]_vars

Previous == ind[Len(ind) - 1]

\* x > 3/2 on a defined, finite value
AboveOneAndHalf(x) == 2 * x.n > 3 * x.d

MaShortAboveMedium ==
    Defined(Latest.MA5) /\ Defined(Latest.MA20) /\ Above(Latest.MA5, Latest.MA20)
MacdAboveSignal ==
    Defined(Latest.MACD) /\ Defined(Latest.Signal) /\ Above(Latest.MACD, Latest.Signal)
RatioHigh ==
    Defined(Latest.Volume_Ratio) /\ AboveOneAndHalf(Latest.Volume_Ratio)

\* p/q = (latest.close - previous.close) / previous.close * 100, on closes
\* that are positive rationals
IsPriceChange(x) ==
    /\ x.k = "num"
    /\ x.n * (Previous.close.n * Latest.close.d)
          = x.d * 100 * (Latest.close.n * Previous.close.d
                           - Previous.close.n * Latest.close.d)

\* the rubric with the three labels of the report put in the place of the
\* tests they are claimed to repeat
ScoreFromLabels(r) ==
      Iverson(r.ma_trend = "UP") * 15
    + (IF Defined(Latest.MA20) /\ Defined(Latest.MA60)
          /\ Above(Latest.MA20, Latest.MA60) THEN 15 ELSE 0)
    + RsiPoints(Latest)
    + Iverson(r.macd_signal = "BUY") * 20
    + (IF r.volume_status = "HIGH" THEN 30 ELSE VolumePoints(Latest))

\* C12: in every returned report ma_trend is UP iff MA5 > MA20 on the
\* latest bar (else DOWN), macd_signal is BUY iff MACD > Signal (else SELL),
\* volume_status is HIGH iff Volume_Ratio > 1.5 (else NORMAL), price_change
\* is (latest.close - previous.close) / previous.close * 100, and the score
\* is the rubric with UP, BUY and HIGH standing for the first trend test,
\* the MACD test and the 30-point volume test
C12_LabelsFromLatestBar ==
    pc = "done" =>
        LET r == report[1]
        IN  /\ r.ma_trend = (IF MaShortAboveMedium THEN "UP" ELSE "DOWN")
            /\ r.macd_signal = (IF MacdAboveSignal THEN "BUY" ELSE "SELL")
            /\ r.volume_status = (IF RatioHigh THEN "HIGH" ELSE "NORMAL")
            /\ IsPriceChange(r.price_change)
            /\ r.score = Num(ScoreFromLabels(r))

\* a report with UP, SELL and HIGH: 15 + 30 points and a close that doubled
C12_Witness ==
    /\ pc = "done"
    /\ report[1].ma_trend = "UP"
    /\ report[1].macd_signal = "SELL"
    /\ report[1].volume_status = "HIGH"
    /\ report[1].price_change = Num(100)
    /\ report[1].score = Num(45)

----------------------------------------------------------------------------
(* Claim about the POST /analyze endpoint (checked under SpecRequest) *)

Responded == response # NoResponse

\* C13: the endpoint answers a ValueError of the service (invalid stock code,
\* unsupported market type) with status code 400 and every other failure
\* with status code 500
C13_ParameterErrorIs400 ==
    (Responded /\ pc = "failed") =>
        response.status_code = (IF error.type = "ValueError" THEN 400 ELSE 500)

----------------------------------------------------------------------------
(* The indicator engine on long series: the invocation is entered when     *)
(* get_stock_data has returned, with a series of 2 or MinBars..MaxBars     *)
(* rows.  The series are flat (close c, volume v) except for two bars in   *)
(* a row, at the end of the series or rsi_period - 1 bars before it: the   *)
(* first takes any close, the second any close and any volume, and the     *)
(* series stays at that close afterwards.  A window of such a series is    *)
(* flat, rising, falling or mixed depending on the row.                    *)

\* max(lookback windows) + 1
MinBars == ma_long + 1

Bar(i, c, v) ==
    [date |-> Day(i), open |-> Num(c), close |-> Num(c), high |-> Num(c),
     low |-> Num(c), volume |-> Num(v), other |-> Num(1)]

\* n rows; rows p - 1 and p are the two bars that differ
SeriesOf(n, p, c, v, x, y, w) ==
    [i \in 1..n |->
        IF i < p - 1 THEN Bar(i, c, v)
        ELSE IF i = p - 1 THEN Bar(i, x, v)
        ELSE IF i = p THEN Bar(i, y, w)
        ELSE Bar(i, y, v)]

\* two rows (the fewest analyze_stock can report on) and the long series
SeriesLengths == {2} \cup MinBars..MaxBars

SeriesAt(n, p) ==
    {SeriesOf(n, p, c, v, x, y, w) :
        c \in 1..MaxClose, v \in 0..1,
        x \in 1..MaxClose, y \in 1..MaxClose, w \in 0..2}

SyntheticSeries ==
    UNION {SeriesAt(n, n) \cup SeriesAt(n, Max(n - rsi_period + 1, 2)) :
              n \in SeriesLengths}

InitSeries ==
    /\ pc = "normalized"
    /\ request = TheRequest
    /\ calls = <<UpstreamCall(TheRequest)>>
    /\ raw = NoFrame
    /\ df \in SyntheticSeries
    /\ ind = <<>>
    /\ score = None
    /\ report = <<>>
    /\ error = NoError
    /\ response = NoResponse
NextSeries ==
    \/ calculate_indicators
    \/ analyze_stock_Score
    \/ analyze_stock_Report
    \/ endpoint_analyze_stock
SpecSeries == InitSeries /\ [][NextSeries]_vars

----------------------------------------------------------------------------
(* Claims about the indicator columns (checked under SpecSeries).  Row i   *)
(* of the model is the bar of index i - 1 of the frame.                    *)

Computed == Len(ind) = Len(df) /\ Len(df) > 0

\* the close rose (fell) between two consecutive rows of the RSI window
\* that ends at row i
Rises(i) ==
    \E j \in (i - rsi_period + 1)..i :
        j >= 2 /\ Cmp(df[j].close, df[j - 1].close) > 0
Falls(i) ==
    \E j \in (i - rsi_period + 1)..i :
        j >= 2 /\ Cmp(df[j].close, df[j - 1].close) < 0

\* some volume of the volume window that ends at row i is not zero
Traded(i) ==
    \E j \in (i - volume_ma_period + 1)..i : j >= 1 /\ df[j].volume.n # 0

\* C14 as stated: on a series of at least MinBars rows every indicator is
\* defined past its warm-up window: RSI from index rsi_period - 1 on, the
\* volume ratio from index volume_ma_period - 1 on, ROC from index 10 on
C14_Original ==
    (Computed /\ Len(df) >= MinBars) =>
        \A i \in 1..Len(ind) :
            /\ i >= rsi_period => Defined(ind[i].RSI)
            /\ i >= volume_ma_period => Defined(ind[i].Volume_Ratio)
            /\ i >= roc_periods + 1 => Defined(ind[i].ROC)

\* C14, amended: on a series of at least MinBars rows the moving averages,
\* MACD and Signal are defined on every bar and ROC exactly from index 10
\* on; the volume ratio is defined exactly on the bars from index
\* volume_ma_period - 1 on whose volume window is not all zero; RSI is
\* defined exactly on the bars from index rsi_period - 1 on whose window
\* holds a change of the close, and undefined where the window is flat
C14_DefinedPastWarmUp ==
    (Computed /\ Len(df) >= MinBars) =>
        \A i \in 1..Len(ind) :
            /\ Defined(ind[i].MA5) /\ Defined(ind[i].MA20) /\ Defined(ind[i].MA60)
            /\ Defined(ind[i].MACD) /\ Defined(ind[i].Signal)
            /\ Defined(ind[i].ROC) <=> i >= roc_periods + 1
            /\ Defined(ind[i].Volume_Ratio) <=> (i >= volume_ma_period /\ Traded(i))
            /\ Defined(ind[i].RSI) <=> (i >= rsi_period /\ (Rises(i) \/ Falls(i)))

\* a long series whose last bar has RSI and the volume ratio defined while
\* the bar two rows before, past every warm-up window, has RSI undefined
C14_Witness ==
    /\ Computed
    /\ Len(df) >= MinBars
    /\ Defined(ind[Len(ind)].RSI)
    /\ Defined(ind[Len(ind)].Volume_Ratio)
    /\ ~Defined(ind[Len(ind) - 2].RSI)
    /\ Defined(ind[Len(ind) - 2].Volume_Ratio)

\* C15: on every bar RSI is undefined or a number in [0, 100]; where no
\* close of the window fell (rolling loss 0) nothing fails and RSI is 100 if
\* a close of the window rose, undefined if none did; the first
\* rsi_period - 1 bars are undefined
C15_RsiRange ==
    /\ error = NoError
    /\ Computed =>
          \A i \in 1..Len(ind) :
              /\ \/ IsNaN(ind[i].RSI)
                 \/ /\ IsNum(ind[i].RSI)
                    /\ Cmp(ind[i].RSI, Num(0)) >= 0
                    /\ Cmp(ind[i].RSI, Num(100)) <= 0
              /\ i < rsi_period => IsNaN(ind[i].RSI)
              /\ (i >= rsi_period /\ ~Falls(i)) =>
                    ind[i].RSI = (IF Rises(i) THEN Num(100) ELSE NaN)

\* a series that is flat, rises on its last bar but one and falls back on
\* its last: RSI undefined, then 100, then 50
C15_Witness ==
    /\ Computed
    /\ Len(df) >= MinBars
    /\ ind[Len(ind) - 2].RSI = NaN
    /\ ind[Len(ind) - 1].RSI = Num(100)
    /\ ind[Len(ind)].RSI = Num(50)

FlatSeries ==
    /\ Len(df) >= 2
    /\ df[1].volume.n > 0
    /\ \A i \in 1..Len(df) :
          df[i].close = df[1].close /\ df[i].volume = df[1].volume

\* C16: for a series of at least 2 rows with constant close c and constant
\* positive volume, on every bar MA5 = MA20 = MA60 = c, MACD = Signal = 0
\* and RSI is undefined, the volume ratio is 1 from index
\* volume_ma_period - 1 on, and the analysis raises nothing: the report has
\* rsi None and the labels DOWN, SELL and NORMAL
C16_FlatSeries ==
    FlatSeries =>
        /\ error = NoError
        /\ Computed =>
              \A i \in 1..Len(ind) :
                  /\ ind[i].MA5 = df[1].close
                  /\ ind[i].MA20 = df[1].close
                  /\ ind[i].MA60 = df[1].close
                  /\ ind[i].MACD = Num(0)
                  /\ ind[i].Signal = Num(0)
                  /\ IsNaN(ind[i].RSI)
                  /\ i >= volume_ma_period => ind[i].Volume_Ratio = Num(1)
        /\ pc = "done" =>
              /\ report[1].rsi = None
              /\ report[1].ma_trend = "DOWN"
              /\ report[1].macd_signal = "SELL"
              /\ report[1].volume_status = "NORMAL"
              /\ report[1].price_change = Num(0)

\* the report on a flat series of MinBars rows or more, close 2
C16_Witness ==
    /\ FlatSeries
    /\ Len(df) >= MinBars
    /\ df[1].close = Num(2)
    /\ pc = "done"
    /\ report[1].score = Num(0)
    /\ ind[Len(ind)].Volume_Ratio = Num(1)

----------------------------------------------------------------------------
(* The end-to-end scenario: series of ScenarioBars rows whose close rises  *)
(* on every bar, by `first` a bar and then by `last` a bar over the final  *)
(* `tail` bars, and whose volume is constant.  last < first is a rise that *)
(* slows down, last > first one that quickens, last = first a constant     *)
(* step (after so many bars of a constant step the gap between MACD and    *)
(* its signal line is smaller than 1 / Grain).                             *)

RisingSeries(n, first, last, tail, v) ==
    [i \in 1..n |->
        Bar(i, 1 + first * Min(i - 1, n - 1 - tail)
                 + last * Max(i - 1 - (n - 1 - tail), 0), v)]

ScenarioSeries ==
    {RisingSeries(ScenarioBars, first, last, tail, v) :
        first \in 1..MaxStep, last \in 1..MaxStep, tail \in {5, 20},
        v \in 1..2}

InitScenario ==
    /\ pc = "normalized"
    /\ request = TheRequest
    /\ calls = <<UpstreamCall(TheRequest)>>
    /\ raw = NoFrame
    /\ df \in ScenarioSeries
    /\ ind = <<>>
    /\ score = None
    /\ report = <<>>
    /\ error = NoError
    /\ response = NoResponse
SpecScenario == InitScenario /\ [][NextSeries]_vars

----------------------------------------------------------------------------
(* Claim about the end-to-end scenario (checked under SpecScenario) *)

\* the series of the scenario: ScenarioBars rows, a close that rises on
\* every bar, one positive volume
Scenario ==
    /\ Len(df) = ScenarioBars
    /\ \A i \in 2..Len(df) : Cmp(df[i].close, df[i - 1].close) > 0
    /\ \A i \in 1..Len(df) : df[i].volume = df[1].volume /\ df[1].volume.n > 0

\* the rise of the close on the last bar, and on the second bar
LastStep == Sub(df[Len(df)].close, df[Len(df) - 1].close)
FirstStep == Sub(df[2].close, df[1].close)

MacdPositive == Defined(Latest.MACD) /\ Above(Latest.MACD, Num(0))

\* C17 as stated: the report on a rising series of ScenarioBars rows with
\* constant volume has ma_trend UP, macd_signal BUY as soon as MACD is
\* positive, volume_status NORMAL and a score of at least 50
C17_Original ==
    (Scenario /\ pc = "done") =>
        /\ report[1].ma_trend = "UP"
        /\ MacdPositive => report[1].macd_signal = "BUY"
        /\ report[1].volume_status = "NORMAL"
        /\ Cmp(report[1].score, Num(50)) >= 0

\* C17, amended: nothing fails on such a series, and its report has
\* ma_trend UP, volume_status NORMAL, rsi 100 (which earns no point) and a
\* positive MACD on the latest bar; the score is 50 when macd_signal is BUY
\* and 30 when it is SELL; macd_signal is SELL, with MACD positive, when
\* the rise has slowed down over the last bars, and BUY when it has
\* quickened
C17_RisingSeries ==
    Scenario =>
        /\ error = NoError
        /\ pc = "done" =>
              /\ report[1].ma_trend = "UP"
              /\ report[1].volume_status = "NORMAL"
              /\ report[1].rsi = Num(100)
              /\ MacdPositive
              /\ report[1].macd_signal = (IF MacdAboveSignal THEN "BUY" ELSE "SELL")
              /\ report[1].score =
                    (IF report[1].macd_signal = "BUY" THEN Num(50) ELSE Num(30))
              /\ Cmp(LastStep, FirstStep) < 0 => report[1].macd_signal = "SELL"
              /\ Cmp(LastStep, FirstStep) > 0 => report[1].macd_signal = "BUY"

\* the report on a rise that quickened over its last 20 bars: BUY, 50
C17_Witness ==
    /\ Scenario
    /\ pc = "done"
    /\ Cmp(LastStep, FirstStep) > 0
    /\ df[Len(df) - 19].close # Add(df[Len(df) - 20].close, FirstStep)
    /\ report[1].ma_trend = "UP"
    /\ report[1].macd_signal = "BUY"
    /\ report[1].score = Num(50)
    /\ report[1].recommendation = "hold"

====
